---- MODULE Spec2Model ----
(***************************************************************************)
(* KataGoEngine (src/server/katago_engine.py): the supervisor of one       *)
(* KataGo analysis process and the dispatcher of its line-delimited        *)
(* queries.  The state is the fields of the KataGoEngine object, the       *)
(* spawned processes with their pipes, the stdout reader threads and the   *)
(* position of every caller inside start(), stop() and query().            *)
(***************************************************************************)
EXTENDS Integers, Sequences, FiniteSets, TLC

\* ------------------------------------------------------------------ bounds
MaxSpawn == 1     \* subprocess.Popen calls over the life of the object
MaxQuery == 1     \* query() calls that draw an id from query_counter
MaxRestart == 2   \* subprocess.Popen calls where restarts are studied
MaxIds == 2       \* _next_id() calls where the ids given out are studied
MaxMoves == 2     \* entries of moveInfos in a response
MaxLines == 1     \* lines waiting in a stdout pipe when the engine adds one that answers no query

Supervisors == {"s1"}           \* the thread calling start() and stop()
Racers == {"s1", "s2"}          \* threads calling start() and stop() concurrently
Queriers == {"c1"}              \* threads calling query() without an id
Clients == {"c1", "c2"}         \* threads calling query() concurrently
Threads == Racers \cup Clients

None == <<>>                    \* Python's None

\* ---------------------------------------------------------- program values
\* the reserved id of the probe query of start()
StartupTestId == <<"__startup_test__">>

\* f"q_{self.query_counter}"
FormatId(n) == <<"q_", n>>

\* for i in range(60)
SettleRange == 60

\* if i >= 2: break
SettleBreak == 2

\* time.sleep(2)
SleepSeconds == 2

Ids == {StartupTestId} \cup {FormatId(n) : n \in 1..(MaxQuery + MaxIds)}

VARIABLES
  process,          \* self.process: 0 is None, p > 0 the p-th Popen object
  running,          \* self.running
  ready,            \* self.ready
  query_counter,    \* self.query_counter
  response_queues,  \* self.response_queues: id -> the caller whose Queue it is
  queue,            \* resp_queue of each caller's current query() call
  returncode,       \* per spawned process: "None" while it runs, then how it ended
  stdin,            \* per spawned process: how many unanswered queries it has read, per id
  stdout,           \* per spawned process: the lines in its stdout pipe
  answered,         \* the processes that have written a response to a probe query
  readers,          \* the _read_stdout threads: process read, position, line held
  pc,               \* per caller: the statement it is at
  query_id,         \* per caller: the local query_id of query()
  response,         \* per caller: what resp_queue.get() gave, None after queue.Empty
  i,                \* per supervisor: the loop variable of the settle loop
  slept,            \* per supervisor: the time start() has slept in time.sleep(2) since its Popen
  frame,            \* per supervisor: the method it called, "start" or "stop"
  was_alive,        \* per supervisor: whether the process was alive when its stop() was entered
  last,             \* the latest return to a caller: the caller and the statement left by
  issued,           \* the ids _next_id() has returned, in order
  args,             \* the keyword arguments of a query() call whose message is built
  query_obj,        \* query_obj of that call
  result,           \* result in analyze_position(): what its query() returned
  parsed            \* what analyze_position() returned for it

vars == <<process, running, ready, query_counter, response_queues, queue,
          returncode, stdin, stdout, answered, readers, pc, query_id, response, i, slept,
          frame, was_alive, last,
          issued, args, query_obj, result, parsed>>

messageVars == <<args, query_obj, result, parsed>>

callerVars == <<pc, query_id, response, i, slept, frame, was_alive, last>>

procVars == <<returncode, stdin, stdout, answered>>

engineVars == <<process, running, ready, query_counter, response_queues, queue,
                returncode, stdin, stdout, answered, readers>>

Procs == 1..Len(returncode)

\* p.poll() is None
Alive(p) == returncode[p] = "None"

\* self.process and self.process.poll() is None
ProcessAlive == process # 0 /\ Alive(process)

\* is_running()
is_running == process # 0 /\ Alive(process) /\ ready

\* lines 21-33: the object after __init__
InitEngine ==
  /\ process = 0
  /\ running = FALSE
  /\ ready = FALSE
  /\ query_counter = 0
  /\ response_queues = [k \in {} |-> None]
  /\ queue = [t \in Threads |-> <<>>]
  /\ returncode = <<>>
  /\ stdin = <<>>
  /\ stdout = <<>>
  /\ answered = {}
  /\ readers = <<>>
  /\ pc = [t \in Threads |-> "idle"]
  /\ query_id = [t \in Threads |-> None]
  /\ response = [t \in Threads |-> None]
  /\ i = [t \in Racers |-> 0]
  /\ slept = [t \in Racers |-> 0]
  /\ frame = [t \in Racers |-> "none"]
  /\ was_alive = [t \in Racers |-> FALSE]
  /\ last = None
  /\ issued = <<>>

Init ==
  /\ InitEngine
  /\ args = None
  /\ query_obj = None
  /\ result = None
  /\ parsed = None

\* ----------------------------------------------------------------- helpers
\* self.response_queues[id] = resp_queue, the Queue of caller t
Register(rq, id, t) ==
  [k \in DOMAIN rq \cup {id} |-> IF k = id THEN t ELSE rq[k]]

\* del self.response_queues[id], for an id that is a key
Remove(rq, id) == [k \in DOMAIN rq \ {id} |-> rq[k]]

\* the input of a process that holds no unanswered query
NoQueries == [k \in Ids |-> 0]

\* response.get("id", "") of a message that has no id
NoId == <<"">>

\* one response line of the engine: the id it answers and the process that wrote it
Line(id, p) == [kind |-> "object", id |-> id, from |-> p]

\* a line of the engine that is no response: "text" is not JSON, "value" is
\* JSON that is not an object (a number, a string, a list), "object" is a
\* message without an id
Other(kind, p) == [kind |-> kind, id |-> NoId, from |-> p]

OtherKinds == {"text", "value", "object"}

\* a return statement of start() or stop(), or an exception leaving them: the
\* locals of the call are gone
Return(t, how) ==
  /\ pc' = [pc EXCEPT ![t] = "idle"]
  /\ frame' = [frame EXCEPT ![t] = "none"]
  /\ was_alive' = [was_alive EXCEPT ![t] = FALSE]
  /\ i' = [i EXCEPT ![t] = 0]
  /\ slept' = [slept EXCEPT ![t] = 0]
  /\ query_id' = [query_id EXCEPT ![t] = None]
  /\ response' = [response EXCEPT ![t] = None]
  /\ last' = <<t, how>>



\* --------------------------------------------------------------- start()
\* start() without the test of lines 37-39: it spawns whatever is running
StartUnchecked(t) ==
  /\ pc[t] = "idle"
  /\ pc' = [pc EXCEPT ![t] = "L51"]
  /\ frame' = [frame EXCEPT ![t] = "start"]
  /\ UNCHANGED <<query_id, response, i, slept, was_alive, last>>
  /\ UNCHANGED engineVars
  /\ UNCHANGED <<issued, messageVars>>

\* lines 35-39: the call and its first test
Start(t) ==
  /\ pc[t] = "idle"
  /\ IF ProcessAlive
       THEN Return(t, "L39")
       ELSE /\ pc' = [pc EXCEPT ![t] = "L51"]
            /\ frame' = [frame EXCEPT ![t] = "start"]
            /\ UNCHANGED <<query_id, response, i, slept, was_alive, last>>
  /\ UNCHANGED engineVars
  /\ UNCHANGED <<issued, messageVars>>

\* lines 50-63: Popen gives a new process, or raises and start() returns False;
\* n bounds the processes spawned
Popen(t, n) ==
  /\ pc[t] = "L51"
  /\ \/ /\ Len(returncode) < n
        /\ returncode' = Append(returncode, "None")
        /\ stdin' = Append(stdin, NoQueries)
        /\ stdout' = Append(stdout, <<>>)
        /\ process' = Len(returncode) + 1
        /\ pc' = [pc EXCEPT ![t] = "L65"]
        /\ UNCHANGED <<query_id, response, i, slept, frame, was_alive, last>>
     \/ /\ Return(t, "L60")
        /\ UNCHANGED <<process, returncode, stdin, stdout>>
  /\ UNCHANGED <<running, ready, query_counter, response_queues, queue, answered,
                 readers>>
  /\ UNCHANGED <<issued, messageVars>>

\* lines 65-73: the running flag and the reader thread, which iterates over
\* self.process.stdout as self.process is when the thread runs
StartReaders(t) ==
  /\ pc[t] = "L65"
  /\ running' = TRUE
  /\ readers' = Append(readers, [proc |-> process, pc |-> "read", line |-> None])
  /\ pc' = [pc EXCEPT ![t] = "L78"]
  /\ UNCHANGED <<process, ready, query_counter, response_queues, queue, procVars,
                 query_id, response, i, slept, frame, was_alive, last>>
  /\ UNCHANGED <<issued, messageVars>>

\* the settle loop leaving at its first turn: `if i >= 0: break`
SettleEager(t) ==
  /\ pc[t] = "L78"
  /\ IF ~Alive(process)
       THEN Return(t, "L85")
       ELSE /\ pc' = [pc EXCEPT ![t] = "L184"]
            /\ query_id' = [query_id EXCEPT ![t] = StartupTestId]
            /\ slept' = [slept EXCEPT ![t] = @ + SleepSeconds]
            /\ UNCHANGED <<response, i, frame, was_alive, last>>
  /\ UNCHANGED engineVars
  /\ UNCHANGED <<issued, messageVars>>

\* lines 78-88: one turn of the settle loop: the sleep of line 79, the poll of
\* line 80, and the test of line 87 that leaves the loop for the probe
Settle(t) ==
  /\ pc[t] = "L78"
  /\ IF ~Alive(process)
       THEN Return(t, "L85")
       ELSE IF i[t] >= SettleBreak \/ i[t] + 1 >= SettleRange
         THEN /\ pc' = [pc EXCEPT ![t] = "L184"]
              /\ query_id' = [query_id EXCEPT ![t] = StartupTestId]
              /\ slept' = [slept EXCEPT ![t] = @ + SleepSeconds]
              /\ UNCHANGED <<response, i, frame, was_alive, last>>
         ELSE /\ i' = [i EXCEPT ![t] = i[t] + 1]
              /\ slept' = [slept EXCEPT ![t] = @ + SleepSeconds]
              /\ UNCHANGED <<pc, query_id, response, frame, was_alive, last>>
  /\ UNCHANGED engineVars
  /\ UNCHANGED <<issued, messageVars>>

\* lines 101-108 and 112: the test of the probe's result; on None, stop() is
\* entered and clears the running flag
StartResult(t) ==
  /\ pc[t] = "L101"
  /\ IF response[t] # None
       THEN /\ ready' = TRUE
            /\ Return(t, "L104")
            /\ UNCHANGED running
       ELSE /\ running' = FALSE
            /\ pc' = [pc EXCEPT ![t] = "L113"]
            /\ query_id' = [query_id EXCEPT ![t] = None]
            /\ UNCHANGED <<ready, response, i, slept, frame, last>>
            /\ was_alive' = [was_alive EXCEPT ![t] = ProcessAlive]
  /\ UNCHANGED <<process, query_counter, response_queues, queue, procVars,
                 readers>>
  /\ UNCHANGED <<issued, messageVars>>

\* ---------------------------------------------------------------- stop()
\* lines 110-112: the call and the clearing of the running flag
Stop(t) ==
  /\ pc[t] = "idle"
  /\ running' = FALSE
  /\ pc' = [pc EXCEPT ![t] = "L113"]
  /\ frame' = [frame EXCEPT ![t] = "stop"]
  /\ was_alive' = [was_alive EXCEPT ![t] = ProcessAlive]
  /\ UNCHANGED <<process, ready, query_counter, response_queues, queue, procVars,
                 readers, query_id, response, i, slept, last>>
  /\ UNCHANGED <<issued, messageVars>>

\* stop() without the test of line 113: it closes and terminates whatever
\* self.process holds
TerminateUnguarded(t) ==
  /\ pc[t] = "L113"
  /\ IF process # 0
       THEN /\ returncode' = [returncode EXCEPT ![process] = "SIGTERM"]
            /\ stdin' = [stdin EXCEPT ![process] = NoQueries]
       ELSE UNCHANGED <<returncode, stdin>>
  /\ pc' = [pc EXCEPT ![t] = "L121"]
  /\ UNCHANGED <<process, running, ready, query_counter, response_queues, queue,
                 stdout, answered, readers, query_id, response, i, slept, frame, was_alive, last>>
  /\ UNCHANGED <<issued, messageVars>>

\* lines 113-120: when the process is alive its stdin is closed and it is
\* terminated (terminate(), wait(timeout=5), kill() on any exception); it has
\* exited when stop() goes on
Terminate(t) ==
  /\ pc[t] = "L113"
  /\ IF ProcessAlive
       THEN /\ returncode' = [returncode EXCEPT ![process] = "SIGTERM"]
            /\ stdin' = [stdin EXCEPT ![process] = NoQueries]
       ELSE UNCHANGED <<returncode, stdin>>
  /\ pc' = [pc EXCEPT ![t] = "L121"]
  /\ UNCHANGED <<process, running, ready, query_counter, response_queues, queue,
                 stdout, answered, readers, query_id, response, i, slept, frame, was_alive, last>>
  /\ UNCHANGED <<issued, messageVars>>

\* line 121, and the return of stop() (to line 108 of start() when start() called it)
StopReturn(t) ==
  /\ pc[t] = "L121"
  /\ ready' = FALSE
  /\ Return(t, IF frame[t] = "start" THEN "L108" ELSE "L121")
  /\ UNCHANGED <<process, running, query_counter, response_queues, queue,
                 procVars, readers>>
  /\ UNCHANGED <<issued, messageVars>>

\* ---------------------------------------------------------------- query()
\* return of query(): to the caller of a querier, to line 101 of start() for
\* the probe, which keeps the value in test_result
QueryReturn(t, val, how) ==
  /\ queue' = [queue EXCEPT ![t] = <<>>]
  /\ IF t \in Racers
       THEN /\ response' = [response EXCEPT ![t] = val]
            /\ pc' = [pc EXCEPT ![t] = "L101"]
            /\ UNCHANGED <<query_id, last>>
       ELSE /\ response' = [response EXCEPT ![t] = None]
            /\ query_id' = [query_id EXCEPT ![t] = None]
            /\ pc' = [pc EXCEPT ![t] = "idle"]
            /\ last' = <<t, how>>
  /\ UNCHANGED <<frame, was_alive, i, slept>>

\* `del self.response_queues[query_id]` raised KeyError: query() is left by the
\* exception, and so is start() when the query was its probe
QueryRaise(t) ==
  /\ queue' = [queue EXCEPT ![t] = <<>>]
  /\ response' = [response EXCEPT ![t] = None]
  /\ query_id' = [query_id EXCEPT ![t] = None]
  /\ pc' = [pc EXCEPT ![t] = "idle"]
  /\ last' = <<t, "KeyError">>
  /\ IF t \in Racers
       THEN /\ frame' = [frame EXCEPT ![t] = "none"]
            /\ was_alive' = [was_alive EXCEPT ![t] = FALSE]
            /\ i' = [i EXCEPT ![t] = 0]
            /\ slept' = [slept EXCEPT ![t] = 0]
       ELSE UNCHANGED <<frame, was_alive, i, slept>>

\* query() without the test of lines 184-186
QueryUnchecked(t, n) ==
  /\ pc[t] = "idle"
  /\ query_counter < n
  /\ query_counter' = query_counter + 1
  /\ query_id' = [query_id EXCEPT ![t] = FormatId(query_counter + 1)]
  /\ issued' = Append(issued, FormatId(query_counter + 1))
  /\ pc' = [pc EXCEPT ![t] = "L218"]
  /\ UNCHANGED <<response, queue, frame, was_alive, i, slept, last>>
  /\ UNCHANGED <<process, running, ready, response_queues, procVars, readers>>
  /\ UNCHANGED messageVars

\* _next_id() without the lock, for a caller that read the counter before the
\* increment of the caller ahead of it
next_id_racy(n) == FormatId(IF n > 0 THEN n ELSE 1)

\* lines 157-161: _next_id() increments the counter and formats the id with
\* self.lock held, in one step for every other thread
next_id(n) == FormatId(n + 1)

\* lines 163-189 for a caller that gives no query_id: the liveness test and
\* _next_id(); n bounds the ids given out
Query(t, n) ==
  /\ pc[t] = "idle"
  /\ query_counter < n
  /\ IF ~ProcessAlive
       THEN /\ QueryReturn(t, None, "L186")
            /\ UNCHANGED <<query_counter, issued>>
       ELSE /\ query_counter' = query_counter + 1
            /\ query_id' = [query_id EXCEPT ![t] = next_id(query_counter)]
            /\ issued' = Append(issued, next_id(query_counter))
            /\ pc' = [pc EXCEPT ![t] = "L218"]
            /\ UNCHANGED <<response, queue, frame, was_alive, i, slept, last>>
  /\ UNCHANGED <<process, running, ready, response_queues, procVars, readers>>
  /\ UNCHANGED messageVars

\* lines 184-189 for the probe of start(), which gives its query_id
ProbeQuery(t) ==
  /\ pc[t] = "L184"
  /\ IF ~ProcessAlive
       THEN QueryReturn(t, None, "L186")
       ELSE /\ pc' = [pc EXCEPT ![t] = "L218"]
            /\ UNCHANGED <<response, query_id, queue, frame, was_alive, i, slept, last>>
  /\ UNCHANGED <<process, running, ready, query_counter, response_queues,
                 procVars, readers>>
  /\ UNCHANGED <<issued, messageVars>>

\* lines 217-218: a new Queue is put in the table under the id
RegisterQueue(t) ==
  /\ pc[t] = "L218"
  /\ response_queues' = Register(response_queues, query_id[t], t)
  /\ queue' = [queue EXCEPT ![t] = <<>>]
  /\ pc' = [pc EXCEPT ![t] = "L223"]
  /\ UNCHANGED <<process, running, ready, query_counter, procVars, readers,
                 query_id, response, i, slept, frame, was_alive, last>>
  /\ UNCHANGED <<issued, messageVars>>

\* lines 225-228: the handler of a failed write or flush deletes the entry and
\* returns None
WriteFailed(t) ==
  IF query_id[t] \in DOMAIN response_queues
    THEN /\ response_queues' = Remove(response_queues, query_id[t])
         /\ QueryReturn(t, None, "L228")
    ELSE /\ UNCHANGED response_queues
         /\ QueryRaise(t)

\* lines 221-223: the line goes into the buffer of self.process.stdin; the call
\* raises when that process is gone
WriteQuery(t) ==
  /\ pc[t] = "L223"
  /\ IF ProcessAlive
       THEN /\ pc' = [pc EXCEPT ![t] = "L224"]
            /\ UNCHANGED <<response_queues, queue, query_id, response, frame, was_alive, i, slept,
                           last>>
       ELSE WriteFailed(t)
  /\ UNCHANGED <<process, running, ready, query_counter, procVars, readers>>
  /\ UNCHANGED <<issued, messageVars>>

\* line 224: the flush hands the line to the process, and raises when that
\* process has exited
FlushQuery(t) ==
  /\ pc[t] = "L224"
  /\ IF ProcessAlive
       THEN /\ stdin' = [stdin EXCEPT ![process][query_id[t]] = @ + 1]
            /\ pc' = [pc EXCEPT ![t] = "L232"]
            /\ UNCHANGED <<response_queues, queue, query_id, response, frame, was_alive, i, slept,
                           last>>
       ELSE /\ UNCHANGED stdin
            /\ WriteFailed(t)
  /\ UNCHANGED <<process, running, ready, query_counter, returncode, stdout,
                 answered, readers>>
  /\ UNCHANGED <<issued, messageVars>>

\* lines 231-236: resp_queue.get(timeout=self.max_wait) gives the first
\* response put, or raises queue.Empty while the queue is empty
WaitResponse(t) ==
  /\ pc[t] = "L232"
  /\ response' = [response EXCEPT ![t] =
                    IF queue[t] # <<>> THEN Head(queue[t]) ELSE None]
  /\ pc' = [pc EXCEPT ![t] = "L238"]
  /\ UNCHANGED <<engineVars, query_id, i, slept, frame, was_alive, last>>
  /\ UNCHANGED <<issued, messageVars>>

\* lines 237-238: the finally clause deletes the entry, then query() returns
Finally(t) ==
  /\ pc[t] = "L238"
  /\ IF query_id[t] \in DOMAIN response_queues
       THEN /\ response_queues' = Remove(response_queues, query_id[t])
            /\ QueryReturn(t, response[t],
                           IF response[t] # None THEN "L233" ELSE "L236")
       ELSE /\ UNCHANGED response_queues
            /\ QueryRaise(t)
  /\ UNCHANGED <<process, running, ready, query_counter, procVars, readers>>
  /\ UNCHANGED <<issued, messageVars>>

\* --------------------------------------------------------- _read_stdout()
\* lines 126-128: the next line of the pipe, end of file once the process has
\* exited and the pipe is drained, and the test of the running flag
ReadLine(r) ==
  /\ readers[r].pc = "read"
  /\ LET p == readers[r].proc IN
       IF stdout[p] # <<>>
         THEN /\ stdout' = [stdout EXCEPT ![p] = Tail(@)]
              /\ readers' = [readers EXCEPT ![r] =
                   IF running
                     THEN [@ EXCEPT !.pc = "check", !.line = Head(stdout[p])]
                     ELSE [@ EXCEPT !.pc = "done"]]
         ELSE /\ ~Alive(p)
              /\ readers' = [readers EXCEPT ![r].pc = "done"]
              /\ UNCHANGED stdout
  /\ UNCHANGED <<process, running, ready, query_counter, response_queues, queue,
                 returncode, stdin, answered, callerVars>>
  /\ UNCHANGED <<issued, messageVars>>

\* lines 133-135, 137-139: json.loads raises JSONDecodeError on text, which
\* line 139 takes; response.get raises AttributeError on a value that is no
\* object, which only the handler of lines 141-143 takes, outside the loop;
\* for an object the membership test
Lookup(r) ==
  /\ readers[r].pc = "check"
  /\ readers' = [readers EXCEPT ![r] =
       CASE @.line.kind = "text" -> [@ EXCEPT !.pc = "read", !.line = None]
         [] @.line.kind = "value" -> [@ EXCEPT !.pc = "AttributeError", !.line = None]
         [] OTHER ->
              IF @.line.id \in DOMAIN response_queues
                THEN [@ EXCEPT !.pc = "put"]
                ELSE [@ EXCEPT !.pc = "read", !.line = None]]
  /\ UNCHANGED <<process, running, ready, query_counter, response_queues, queue,
                 procVars, callerVars>>
  /\ UNCHANGED <<issued, messageVars>>

\* a reader that puts the response in a pending Queue whatever its id
DeliverAny(r) ==
  /\ readers[r].pc = "put"
  /\ LET l == readers[r].line IN
       IF DOMAIN response_queues # {}
         THEN /\ \E k \in DOMAIN response_queues :
                   queue' = [queue EXCEPT ![response_queues[k]] = Append(@, l)]
              /\ readers' = [readers EXCEPT ![r] =
                               [@ EXCEPT !.pc = "read", !.line = None]]
         ELSE /\ readers' = [readers EXCEPT ![r] =
                               [@ EXCEPT !.pc = "KeyError", !.line = None]]
              /\ UNCHANGED queue
  /\ UNCHANGED <<process, running, ready, query_counter, response_queues,
                 procVars, callerVars>>
  /\ UNCHANGED <<issued, messageVars>>

\* line 136: the subscript and the put; a KeyError of the subscript is no
\* JSONDecodeError, so the handler of lines 141-143 takes it and the loop is left
Deliver(r) ==
  /\ readers[r].pc = "put"
  /\ LET l == readers[r].line IN
       IF l.id \in DOMAIN response_queues
         THEN /\ queue' = [queue EXCEPT ![response_queues[l.id]] = Append(@, l)]
              /\ readers' = [readers EXCEPT ![r] =
                               [@ EXCEPT !.pc = "read", !.line = None]]
         ELSE /\ readers' = [readers EXCEPT ![r] =
                               [@ EXCEPT !.pc = "KeyError", !.line = None]]
              /\ UNCHANGED queue
  /\ UNCHANGED <<process, running, ready, query_counter, response_queues,
                 procVars, callerVars>>
  /\ UNCHANGED <<issued, messageVars>>

\* ------------------------------------------- query(): the message built
\* a keyword argument: <<>> when the caller gave none (or gave None), <<v>>
\* when the caller gave v
Opt(S) == {<<>>} \cup {<<v>> : v \in S}

\* the value of a parameter: what the caller gave, or the default of the signature
Arg(a, default) == IF a = <<>> THEN default ELSE a[1]

\* d[k] = v on a dict
Put(d, k, v) == [x \in DOMAIN d \cup {k} |-> IF x = k THEN v ELSE d[x]]

\* `if analyze_turns:` in the place of line 207
AnalyzeTurnsTruthy(a) == a.analyze_turns # <<>> /\ a.analyze_turns[1] # <<>>

\* line 207: analyze_turns is not None
AnalyzeTurnsGiven(a) == a.analyze_turns # <<>>

\* lines 191-214: query_obj, from the parameters of query() (lines 163-166)
\* and the id of lines 188-189; `if x:` is the truth value of x, false for
\* None, an empty list, an empty string and False
BuildQueryObj(a) ==
  LET base == [id |-> a.query_id,
               moves |-> a.moves,
               rules |-> Arg(a.rules, "chinese"),
               komi |-> Arg(a.komi, "7.5"),
               boardXSize |-> Arg(a.board_size, 19),
               boardYSize |-> Arg(a.board_size, 19),
               maxVisits |-> Arg(a.max_visits, 3000)]
      q1 == IF a.initial_stones # <<>> /\ a.initial_stones[1] # <<>>
              THEN Put(base, "initialStones", a.initial_stones[1]) ELSE base
      q2 == IF a.initial_player # <<>> /\ a.initial_player[1] # ""
              THEN Put(q1, "initialPlayer", a.initial_player[1]) ELSE q1
      q3 == IF AnalyzeTurnsGiven(a)
              THEN Put(q2, "analyzeTurns", a.analyze_turns[1]) ELSE q2
      q4 == IF a.include_ownership # <<>> /\ a.include_ownership[1]
              THEN Put(q3, "includeOwnership", TRUE) ELSE q3
      q5 == IF a.include_policy # <<>> /\ a.include_policy[1]
              THEN Put(q4, "includePolicy", TRUE) ELSE q4
  IN q5

\* the calls of query() whose message is built
QueryArgs ==
  [query_id : {StartupTestId, FormatId(1)},
   moves : {<<>>, << <<"B", "D4">> >>},
   rules : Opt({"japanese"}),
   komi : Opt({"6.5"}),
   board_size : Opt({9}),
   max_visits : Opt({100}),
   initial_stones : Opt({<<>>, << <<"B", "Q16">> >>}),
   initial_player : Opt({"", "W"}),
   analyze_turns : Opt({<<>>, <<0>>}),
   include_ownership : Opt(BOOLEAN),
   include_policy : Opt(BOOLEAN)]

\* lines 191-214 of a query() call with the arguments args
BuildQuery ==
  /\ last = None
  /\ "query_id" \in DOMAIN args
  /\ query_obj' = BuildQueryObj(args)
  /\ last' = <<"query", "L214">>
  /\ UNCHANGED <<engineVars, pc, query_id, response, i, slept, frame, was_alive, issued, args,
                 result, parsed>>

\* --------------------------------------------------- analyze_position()
\* d.get(k, default)
Get(d, k, default) == IF k \in DOMAIN d THEN d[k] ELSE default

\* a dict with the keys K of d
Restrict(d, K) == [k \in K |-> d[k]]

\* lines 295-303 with a winrate of 0.0 for a candidate that has none
MoveInfoZero(mi) ==
  [move |-> Get(mi, "move", "pass"),
   visits |-> Get(mi, "visits", 0),
   winrate |-> Get(mi, "winrate", "0.0"),
   scoreLead |-> Get(mi, "scoreLead", "0.0"),
   order |-> Get(mi, "order", 0),
   pv |-> Get(mi, "pv", <<>>),
   prior |-> Get(mi, "prior", "0.0")]

\* lines 295-303: the entry of parsed["moves"] for one entry of moveInfos
MoveInfo(mi) ==
  [move |-> Get(mi, "move", "pass"),
   visits |-> Get(mi, "visits", 0),
   winrate |-> Get(mi, "winrate", "0.5"),
   scoreLead |-> Get(mi, "scoreLead", "0.0"),
   order |-> Get(mi, "order", 0),
   pv |-> Get(mi, "pv", <<>>),
   prior |-> Get(mi, "prior", "0.0")]

\* lines 282-308: parsed, for a response that is taken as a result
Parsed(res, include_ownership) ==
  LET move_infos == Get(res, "moveInfos", <<>>)
      root_info == Get(res, "rootInfo", <<>>)
      p == [currentPlayer |-> Get(root_info, "currentPlayer", "B"),
            winrate |-> Get(root_info, "winrate", "0.5"),
            scoreLead |-> Get(root_info, "scoreLead", "0.0"),
            visits |-> Get(root_info, "visits", 0),
            moves |-> [j \in 1..Len(move_infos) |-> MoveInfo(move_infos[j])]]
  IN IF include_ownership /\ "ownership" \in DOMAIN res
       THEN Put(p, "ownership", res["ownership"]) ELSE p

\* analyze_position() that takes the error field only of a response with no rootInfo
analyze_partial(res, include_ownership) ==
  IF res = None THEN None
  ELSE IF "error" \in DOMAIN res /\ "rootInfo" \notin DOMAIN res THEN None
  ELSE Parsed(res, include_ownership)

\* lines 275-308: what analyze_position() returns for what query() returned
analyze_position(res, include_ownership) ==
  IF res = None THEN None
  ELSE IF "error" \in DOMAIN res THEN None
  ELSE Parsed(res, include_ownership)

\* the fields of a response of the engine, with values that are no defaults
FullRootInfo ==
  [currentPlayer |-> "W", winrate |-> "0.62", scoreLead |-> "1.5", visits |-> 100]

FullMoveInfo(c) ==
  [move |-> IF c = 1 THEN "D4" ELSE "Q16",
   visits |-> 10 * c,
   winrate |-> IF c = 1 THEN "0.61" ELSE "0.58",
   scoreLead |-> IF c = 1 THEN "1.4" ELSE "0.9",
   order |-> c,
   pv |-> IF c = 1 THEN <<"D4", "Q16">> ELSE <<"Q16">>,
   prior |-> IF c = 1 THEN "0.3" ELSE "0.2"]

FullResponse(root_info, move_infos) ==
  [id |-> FormatId(1), error |-> "illegal move", rootInfo |-> root_info,
   moveInfos |-> move_infos, ownership |-> <<"0.9", "-0.9">>]

\* key sets of a dict of the response: every key, no key, every key but one
KeySets(all) == {all, {}} \cup {all \ {k} : k \in all}

\* the entries of moveInfos: either candidate with one of the key sets
MoveInfos ==
  {Restrict(FullMoveInfo(c), K) : c \in 1..2, K \in KeySets(DOMAIN FullMoveInfo(1))}

\* the responses given to analyze_position(): any keys of the response, up to
\* n candidate moves
Responses(n) ==
  {Restrict(FullResponse(Restrict(FullRootInfo, R), infos), {"id"} \cup K) :
     K \in SUBSET {"error", "rootInfo", "moveInfos", "ownership"},
     R \in KeySets(DOMAIN FullRootInfo),
     infos \in UNION {[1..m -> MoveInfos] : m \in 0..n}}

\* the arguments of analyze_position() that its result depends on
AnalyzeArgs == [include_ownership : BOOLEAN]

\* lines 275-308 of an analyze_position() call with the arguments args, result
\* being what its query() returned
Analyze ==
  /\ last = None
  /\ "include_ownership" \in DOMAIN args
  /\ "query_id" \notin DOMAIN args
  /\ parsed' = analyze_position(result, args.include_ownership)
  /\ last' = <<"analyze_position", "L308">>
  /\ UNCHANGED <<engineVars, pc, query_id, response, i, slept, frame, was_alive, issued, args,
                 query_obj, result>>

\* ------------------------------------------------------------ the engine
\* the process answers one of the queries it has read, in any order
Respond(p, id) ==
  /\ Alive(p)
  /\ stdin[p][id] > 0
  /\ stdin' = [stdin EXCEPT ![p][id] = @ - 1]
  /\ stdout' = [stdout EXCEPT ![p] = Append(@, Line(id, p))]
  /\ answered' = IF id = StartupTestId THEN answered \cup {p} ELSE answered
  /\ UNCHANGED <<process, running, ready, query_counter, response_queues, queue,
                 returncode, readers, callerVars>>
  /\ UNCHANGED <<issued, messageVars>>

\* the process writes a line that answers no query
Emit(p, kind) ==
  /\ Alive(p)
  /\ Len(stdout[p]) < MaxLines
  /\ stdout' = [stdout EXCEPT ![p] = Append(@, Other(kind, p))]
  /\ UNCHANGED <<process, running, ready, query_counter, response_queues, queue,
                 returncode, stdin, answered, readers, callerVars>>
  /\ UNCHANGED <<issued, messageVars>>

\* the process exits by itself; what it had not answered is lost
Exit(p) ==
  /\ Alive(p)
  /\ returncode' = [returncode EXCEPT ![p] = "exit"]
  /\ stdin' = [stdin EXCEPT ![p] = NoQueries]
  /\ UNCHANGED <<process, running, ready, query_counter, response_queues, queue,
                 stdout, answered, readers, callerVars>>
  /\ UNCHANGED <<issued, messageVars>>

\* ------------------------------------------------------------------ system
\* the steps of the callers in S of start() and stop(), of the readers and of
\* the processes, with at most n processes spawned
Step(S, n) ==
  \/ \E t \in S : Start(t)
  \/ \E t \in S : Popen(t, n)
  \/ \E t \in S : StartReaders(t)
  \/ \E t \in S : Settle(t)
  \/ \E t \in S : StartResult(t)
  \/ \E t \in S : Stop(t)
  \/ \E t \in S : Terminate(t)
  \/ \E t \in S : StopReturn(t)
  \/ \E t \in S : ProbeQuery(t)
  \/ \E t \in Threads : RegisterQueue(t)
  \/ \E t \in Threads : WriteQuery(t)
  \/ \E t \in Threads : FlushQuery(t)
  \/ \E t \in Threads : WaitResponse(t)
  \/ \E t \in Threads : Finally(t)
  \/ \E r \in DOMAIN readers : ReadLine(r)
  \/ \E r \in DOMAIN readers : Lookup(r)
  \/ \E r \in DOMAIN readers : Deliver(r)
  \/ \E p \in Procs, id \in Ids : Respond(p, id)
  \/ \E p \in Procs : Exit(p)

\* one supervising thread and the query callers
Next ==
  \/ Step(Supervisors, MaxSpawn)
  \/ \E t \in Queriers : Query(t, MaxQuery)

Spec == Init /\ [][Next]_vars

\* the same with room for a restart of the engine
NextRestart ==
  \/ Step(Supervisors, MaxRestart)
  \/ \E t \in Queriers : Query(t, MaxQuery)

SpecRestart == Init /\ [][NextRestart]_vars

\* the statements of query() that caller t has left to execute; the thread is
\* scheduled, and get() of line 232 ends by itself after max_wait
QuerySteps(t) ==
  \/ RegisterQueue(t)
  \/ WriteQuery(t)
  \/ FlushQuery(t)
  \/ WaitResponse(t)
  \/ Finally(t)

\* Spec with every caller inside query() going on
SpecLive == Spec /\ \A t \in Threads : WF_vars(QuerySteps(t))

\* the same as Spec with an engine that also writes lines that answer no query
NextOutput ==
  \/ Step(Supervisors, MaxSpawn)
  \/ \E t \in Queriers : Query(t, MaxQuery)
  \/ \E p \in Procs, kind \in OtherKinds : Emit(p, kind)

SpecOutput == Init /\ [][NextOutput]_vars

\* the messages: query() calls that build their query_obj, analyze_position()
\* calls that parse what query() returned
InitMessages ==
  /\ InitEngine
  /\ query_obj = None
  /\ parsed = None
  /\ \/ args \in QueryArgs /\ result = None
     \/ args \in AnalyzeArgs /\ result \in {None} \cup Responses(MaxMoves)

NextMessages ==
  \/ BuildQuery
  \/ Analyze

SpecMessages == InitMessages /\ [][NextMessages]_vars

\* two threads calling query() concurrently
NextIds ==
  \/ Step(Supervisors, MaxSpawn)
  \/ \E t \in Clients : Query(t, MaxIds)

SpecIds == Init /\ [][NextIds]_vars

\* two threads calling start() and stop() with no lock between them
NextConcurrent == Step(Racers, MaxRestart)

SpecConcurrent == Init /\ [][NextConcurrent]_vars

\* SpecConcurrent with every caller inside query() going on
SpecConcurrentLive == SpecConcurrent /\ \A t \in Threads : WF_vars(QuerySteps(t))

\* ================================================================== claims
\* a query() call is between its registration and its return
InQuery(t) == pc[t] \in {"L223", "L224", "L232", "L238"}

\* the liveness state Stopped: a process was spawned, it has exited, and both
\* flags are cleared
Stopped == process # 0 /\ ~Alive(process) /\ ~running /\ ~ready

\* C1: whatever the order of the engine's responses and the interleaving of the
\* callers with the reader, the response a query() call is about to return, or
\* has returned to start(), carries the id of that call.
C1_OwnResponse ==
  \A t \in Threads :
    (pc[t] \in {"L238", "L101"} /\ response[t] # None)
      => response[t].id = query_id[t]

\* two query() calls with distinct ids are in flight; one has its response
\* while the other still waits
C1_Witness ==
  \E t, u \in Threads :
    /\ pc[t] = "L238" /\ response[t] # None
    /\ pc[u] = "L232" /\ query_id[u] # query_id[t]

\* C2: a response whose entry was removed by its timed-out caller is dropped
\* without error: no reader is ever left by a KeyError.
C2_ReaderNeverFaults ==
  \A r \in DOMAIN readers : readers[r].pc # "KeyError"

\* C3: query() entered while no process is alive returns None at once: nothing
\* is written, nothing is registered and the id counter does not move.
C3_QueryNotRunning ==
  [][\A t \in Threads :
       (~ProcessAlive /\ ((t \in Queriers /\ Query(t, MaxQuery)) \/ ProbeQuery(t)))
         => /\ response'[t] = None
            /\ pc'[t] \in {"idle", "L101"}
            /\ stdin' = stdin
            /\ response_queues' = response_queues
            /\ query_counter' = query_counter]_vars

\* a query() of a caller has just returned by line 186, the process having exited
C3_Witness ==
  \E t \in Queriers :
    /\ last = <<t, "L186">> /\ pc[t] = "idle"
    /\ process # 0 /\ ~ProcessAlive
    /\ query_counter = 0 /\ DOMAIN response_queues = {}

\* C4: every query() call that registered an id removes it exactly once: no
\* `del` finds its key gone, and the table is empty whenever no query() call
\* is between its registration and its return.
C4_RemovedExactlyOnce ==
  /\ \A t \in Threads : last # <<t, "KeyError">>
  /\ (\A t \in Threads : ~InQuery(t)) => DOMAIN response_queues = {}

\* C5: is_running() is true only when the current process is alive and has
\* answered its startup probe.
C5_RunningOnlyIfProbed ==
  is_running => (Alive(process) /\ process \in answered)

\* C6: start() entered while the engine is Ready returns True at once and
\* changes nothing of the engine: no process, no reader, no probe.
C6_StartWhenReady ==
  [][\A t \in Racers :
       (is_running /\ Start(t))
         => /\ UNCHANGED engineVars
            /\ pc'[t] = "idle"
            /\ last' = <<t, "L39">>]_vars

\* start() has just returned by line 39 with the one process spawned Ready
C6_Witness ==
  \E t \in Racers :
    /\ last = <<t, "L39">> /\ pc[t] = "idle"
    /\ is_running /\ Len(returncode) = 1 /\ Len(readers) = 1

\* C7: no statement of stop() executed while the engine is Stopped changes
\* anything of the engine: no stream closed, no process terminated, the flags
\* as they were.
C7_StopWhenStopped ==
  [][\A t \in Racers :
       (Stopped /\ (Stop(t) \/ Terminate(t) \/ StopReturn(t)))
         => UNCHANGED engineVars]_vars

\* a stop() is past line 113 with the engine Stopped, the call before it
\* having been a stop() too
C7_Witness ==
  \E t \in Racers :
    /\ pc[t] = "L121" /\ frame[t] = "stop"
    /\ last = <<t, "L121">>
    /\ Stopped

\* C8: at most one process spawned by the supervisor is alive at any time.
C8_AtMostOneAlive ==
  Cardinality({p \in Procs : Alive(p)}) <= 1

\* C9: when the process is found exited in the settle loop, start() returns
\* False by line 85 with the Ready flag false, and no probe is registered or
\* written.
C9_ExitDuringSettle ==
  [][\A t \in Racers :
       (Settle(t) /\ ~Alive(process))
         => /\ last' = <<t, "L85">>
            /\ ~ready'
            /\ stdin' = stdin
            /\ response_queues' = response_queues]_vars

\* C10: the Ready flag is set only by a start() whose own probe returned a
\* response, which then returns True; a start() whose probe returned None goes
\* through stop() and returns False with the process not alive and both flags
\* cleared.
C10_ProbeDecides ==
  [][/\ (~ready /\ ready')
          => \E t \in Racers :
               StartResult(t) /\ response[t] # None /\ last' = <<t, "L104">>
     /\ \A t \in Racers :
          (StartResult(t) /\ response[t] = None)
            => (pc'[t] = "L113" /\ ~running')
     /\ \A t \in Racers :
          (StopReturn(t) /\ frame[t] = "start")
            => /\ last' = <<t, "L108">>
               /\ ~ProcessAlive'
               /\ ~running'
               /\ ~ready']_vars

\* C11: every query() call returns: a caller inside query() leaves it, and a
\* call whose wait ended with queue.Empty returns None (to start() at line 101
\* when it was the probe, to its caller by line 236 otherwise) with its entry
\* removed.
C11_EveryQueryReturns ==
  /\ \A t \in Threads :
       (pc[t] \in {"L218", "L223", "L224", "L232", "L238"})
         ~> (pc[t] \in {"idle", "L101"})
  /\ [][\A t \in Threads :
          (Finally(t) /\ response[t] = None)
            => /\ query_id[t] \notin DOMAIN response_queues'
               /\ response'[t] = None
               /\ IF t \in Racers
                    THEN pc'[t] = "L101"
                    ELSE pc'[t] = "idle" /\ last' = <<t, "L236">>]_vars

\* C12: no call of start(), stop() or query() is left by an exception: every
\* failure reaches the caller as False or None.
C12_NoUncaughtFault ==
  \A t \in Threads : last # <<t, "KeyError">>

\* C13: analyze_position() returns None for every response that has an error
\* field, whatever else the response has.
C13_ErrorIsNoResult ==
  (last = <<"analyze_position", "L308">> /\ result # None /\ "error" \in DOMAIN result)
    => parsed = None

\* analyze_position() has returned for a response with an error field next to
\* rootInfo, moveInfos and ownership, ownership being asked for
C13_Witness ==
  /\ last = <<"analyze_position", "L308">>
  /\ result # None
  /\ {"error", "rootInfo", "moveInfos", "ownership"} \subseteq DOMAIN result
  /\ DOMAIN result["rootInfo"] = DOMAIN FullRootInfo
  /\ Len(result["moveInfos"]) = MaxMoves
  /\ args.include_ownership
  /\ parsed = None

\* C14: query_obj always has id, moves, rules ("chinese" when none is given),
\* komi, boardXSize = boardYSize = board_size and maxVisits; each optional key
\* is there exactly when the caller gave the argument (a true value, for
\* stones, player and the two flags), and there is no other key.
C14_WireQuery ==
  last = <<"query", "L214">> =>
    /\ {"id", "moves", "rules", "komi", "boardXSize", "boardYSize", "maxVisits"}
         \subseteq DOMAIN query_obj
    /\ DOMAIN query_obj \subseteq
         {"id", "moves", "rules", "komi", "boardXSize", "boardYSize", "maxVisits",
          "initialStones", "initialPlayer", "analyzeTurns", "includeOwnership",
          "includePolicy"}
    /\ query_obj["id"] = args.query_id
    /\ query_obj["moves"] = args.moves
    /\ query_obj["rules"] = (IF args.rules = <<>> THEN "chinese" ELSE args.rules[1])
    /\ (args.komi # <<>> => query_obj["komi"] = args.komi[1])
    /\ (args.max_visits # <<>> => query_obj["maxVisits"] = args.max_visits[1])
    /\ query_obj["boardXSize"] = query_obj["boardYSize"]
    /\ (args.board_size # <<>> => query_obj["boardXSize"] = args.board_size[1])
    /\ ("initialStones" \in DOMAIN query_obj
          <=> args.initial_stones \notin {<<>>, << <<>> >>})
    /\ ("initialStones" \in DOMAIN query_obj
          => query_obj["initialStones"] = args.initial_stones[1])
    /\ ("initialPlayer" \in DOMAIN query_obj
          <=> args.initial_player \notin {<<>>, <<"">>})
    /\ ("initialPlayer" \in DOMAIN query_obj
          => query_obj["initialPlayer"] = args.initial_player[1])
    /\ ("analyzeTurns" \in DOMAIN query_obj <=> args.analyze_turns # <<>>)
    /\ ("analyzeTurns" \in DOMAIN query_obj
          => query_obj["analyzeTurns"] = args.analyze_turns[1])
    /\ ("includeOwnership" \in DOMAIN query_obj <=> args.include_ownership = <<TRUE>>)
    /\ ("includePolicy" \in DOMAIN query_obj <=> args.include_policy = <<TRUE>>)

\* a message has been built for a call that gave an empty list of turns, an
\* empty list of stones, an empty player and False for both flags: of the
\* optional keys only analyzeTurns is there
C14_Witness ==
  /\ last = <<"query", "L214">>
  /\ args.analyze_turns = << <<>> >>
  /\ args.initial_stones = << <<>> >>
  /\ args.initial_player = <<"">>
  /\ args.include_ownership = <<FALSE>>
  /\ args.include_policy = <<FALSE>>
  /\ args.board_size = <<9>>
  /\ DOMAIN query_obj =
       {"id", "moves", "rules", "komi", "boardXSize", "boardYSize", "maxVisits",
        "analyzeTurns"}

\* the defaults the specification documents for a candidate move
DocumentedDefault ==
  [move |-> "pass", visits |-> 0, winrate |-> "0.5", scoreLead |-> "0.0",
   order |-> 0, pv |-> <<>>, prior |-> "0.0"]

\* C15: for a response with no error field analyze_position() copies every
\* field that is there, keeps the candidate moves in their order, and puts the
\* documented default for every field that is missing.
C15_CopyOrDefault ==
  (last = <<"analyze_position", "L308">> /\ result # None /\ "error" \notin DOMAIN result)
    =>
    LET root == IF "rootInfo" \in DOMAIN result
                  THEN result["rootInfo"] ELSE Restrict(FullRootInfo, {})
        infos == IF "moveInfos" \in DOMAIN result THEN result["moveInfos"] ELSE <<>>
    IN /\ \A k \in DOMAIN root : parsed[k] = root[k]
       /\ \A k \in {"winrate", "scoreLead", "visits"} \ DOMAIN root :
            parsed[k] = DocumentedDefault[k]
       /\ Len(parsed["moves"]) = Len(infos)
       /\ \A j \in 1..Len(infos) :
            /\ DOMAIN parsed["moves"][j] = DOMAIN DocumentedDefault
            /\ \A k \in DOMAIN infos[j] : parsed["moves"][j][k] = infos[j][k]
            /\ \A k \in DOMAIN DocumentedDefault \ DOMAIN infos[j] :
                 parsed["moves"][j][k] = DocumentedDefault[k]

\* analyze_position() has returned for a response with no error and no
\* rootInfo, whose first candidate has no field and whose last has every field
C15_Witness ==
  /\ last = <<"analyze_position", "L308">>
  /\ result # None
  /\ DOMAIN result = {"id", "moveInfos"}
  /\ Len(result["moveInfos"]) = MaxMoves
  /\ DOMAIN result["moveInfos"][1] = {}
  /\ result["moveInfos"][MaxMoves] = FullMoveInfo(2)
  /\ parsed # None
  /\ parsed["moves"][MaxMoves]["move"] = "Q16"

\* C16: the entry of a query() call is in the table, under its id and holding
\* its own Queue, from before the write until the wait has ended; and while a
\* call has not flushed, no process has read a query of its id.
C16_RegisteredBeforeWrite ==
  \A t \in Threads :
    /\ pc[t] \in {"L223", "L224", "L232"}
         => (query_id[t] \in DOMAIN response_queues
               /\ response_queues[query_id[t]] = t)
    /\ (t \in Queriers /\ pc[t] \in {"L218", "L223", "L224"})
         => \A p \in Procs : stdin[p][query_id[t]] = 0

\* C17: at no time are two callers of query() between the write of line 223
\* and the end of the flush of line 224.
C17_OneWriter ==
  Cardinality({t \in Threads : pc[t] = "L224"}) <= 1

\* C18: no line of the engine ends the stdout reader: a line that is not JSON,
\* or JSON that is no object, is discarded and the loop goes on.
C18_ReaderSurvives ==
  \A r \in DOMAIN readers : readers[r].pc # "AttributeError"

\* C19: a reader that puts a response in a Queue removes the entry of that id
\* from the table in the same step.
C19_RemovedOnDelivery ==
  [][\A r \in DOMAIN readers :
       (Deliver(r) /\ queue' # queue)
         => readers[r].line.id \notin DOMAIN response_queues']_vars

C24_SettleWindow ==
  [][\A t \in Racers :
       Settle(t) =>
         /\ slept[t] = SleepSeconds * i[t]
         /\ i[t] + 1 <= SettleRange
         /\ pc'[t] # "idle" => slept'[t] = slept[t] + SleepSeconds
         /\ pc'[t] = "L184" => (Alive(process) /\ slept'[t] >= 4)
         /\ ~Alive(process) => (pc'[t] = "idle" /\ last' = <<t, "L85">>)]_vars

\* start() is about to issue its probe, three polls and 6 time units after
\* the spawn
C24_Witness ==
  \E t \in Supervisors :
    /\ pc[t] = "L184"
    /\ ProcessAlive
    /\ i[t] = SettleBreak
    /\ slept[t] = SleepSeconds * (SettleBreak + 1)

\* C21: the table operations of different threads do not overlap: while a
\* reader is inside its lookup, between the membership test of line 135 and
\* the subscript of line 136, no caller inserts into or removes from the
\* table, as it would be were both done with the engine's lock held.
C21_TableUnderLock ==
  [][(\E r \in DOMAIN readers : readers[r].pc = "put" /\ readers'[r].pc = "put")
       => response_queues' = response_queues]_vars

\* C22: whenever start() spawns a process after an earlier one, the table is
\* empty: no entry registered during the earlier process is left in it.
C22_EmptyBetweenRuns ==
  [][\A t \in Racers :
       (Popen(t, MaxRestart) /\ process # 0 /\ process' # process)
         => DOMAIN response_queues = {}]_vars

\* C23: when a stop() call that was entered with a process alive returns, the
\* process is not alive and the running flag, the Ready flag and is_running()
\* are all false; and from a cleared Ready flag is_running() becomes true only
\* by a start() that returns True by line 104.
C23_StoppedAfterStop ==
  [][/\ \A t \in Racers :
          (StopReturn(t) /\ was_alive[t])
            => /\ ~ProcessAlive'
               /\ ~running'
               /\ ~ready'
               /\ ~is_running'
     /\ (~ready /\ is_running')
          => \E t \in Racers : StartResult(t) /\ last' = <<t, "L104">>]_vars

\* C25: a start() call returns True, by line 39 or by line 104, only with the
\* Ready flag set and the current process having answered a probe.
C25_SuccessMeansReady ==
  [][\A t \in Racers :
       ((Start(t) /\ ProcessAlive) \/ (StartResult(t) /\ response[t] # None))
         => /\ last' \in {<<t, "L39">>, <<t, "L104">>}
            /\ ready'
            /\ process' \in answered']_vars

\* C26: the response a start() receives for its probe was written by the
\* process that start() spawned, never by a process of an earlier run.
C26_NoStaleResponse ==
  \A t \in Supervisors :
    (pc[t] \in {"L238", "L101"} /\ response[t] # None)
      => response[t].from = process

====
